---- MODULE Spec2Model ----
(***************************************************************************)
(* Task Dashboard: the account manager (auth.py), the REST API (api.py),   *)
(* the UI session handlers (state.py) and the password migrator            *)
(* (migrate_passwords.py) over one shared store of users and tasks.        *)
(*                                                                         *)
(* Text values that the code strips, lower-cases, sanitizes or searches    *)
(* (usernames, e-mails, titles, descriptions, search strings) are tuples   *)
(* of one-character strings, so these conversions are computed.  Passwords *)
(* and salts are TLA+ strings; a password digest is the tuple of the       *)
(* segments that '$' separates in the stored string.                       *)
(***************************************************************************)
EXTENDS Integers, Sequences, FiniteSets, TLC

VARIABLES
    users,      \* rows of table users    (database.py UserModel)
    tasks,      \* rows of table tasks    (database.py TaskModel)
    session,    \* the UI State's authentication fields (state.py 14-25)
    ui_tasks,   \* the UI State's in-memory task list (state.py 28)
    ui,         \* the UI State's task form, editing, filter and sort fields (state.py 30-44)
    reg,        \* create_user calls in progress, one slot per concurrent caller
    creator,    \* history: task id -> id of the identity whose request created the row,
                \* minus the id of the identity whose request deleted it, 0 at first
    last,       \* history: the last completed operation, its inputs and its result
    hasher,     \* direct calls of hash_password and verify_password, and their results
    mig         \* the run of migrate_passwords in progress, and what it returned

vars == <<users, tasks, session, ui_tasks, ui, reg, creator, last, hasher, mig>>

(***************************************************************************)
(* Bounds of the model.                                                    *)
(***************************************************************************)
MaxUsers == 2
NumSalts == 1
MaxTaskId == 2

(***************************************************************************)
(* Program constants.                                                      *)
(***************************************************************************)
UsernameMinLen == 3
UsernameMaxLen == 50
EmailMaxLen == 255
PasswordMinLen == 6
PasswordMaxLen == 128
UiPasswordMinLen == 6

(***************************************************************************)
(* Text: str.strip, str.lower, str.isalnum, bleach.clean.                  *)
(***************************************************************************)
Letters == {"a", "b", "c", "n", "o", "x", "y", "z", "A", "B"}
Digits == {"1", "2"}

IsSpace(c) == c = " "

RECURSIVE LStrip(_)
LStrip(s) == IF s = <<>> THEN s
             ELSE IF IsSpace(Head(s)) THEN LStrip(Tail(s)) ELSE s

RECURSIVE RStrip(_)
RStrip(s) == IF s = <<>> THEN s
             ELSE IF IsSpace(s[Len(s)]) THEN RStrip(SubSeq(s, 1, Len(s) - 1)) ELSE s

Strip(s) == RStrip(LStrip(s))

LowerChar(c) == CASE c = "A" -> "a"
                  [] c = "B" -> "b"
                  [] OTHER -> c

Lower(s) == [i \in 1..Len(s) |-> LowerChar(s[i])]

IsAlnum(s) == s # <<>> /\ \A i \in 1..Len(s) : s[i] \in Letters \cup Digits

RemoveUnderscores(s) == SelectSeq(s, LAMBDA c : c # "_")

Contains(s, c) == \E i \in 1..Len(s) : s[i] = c

\* the part of s after its last '@': s.split("@")[-1]
RECURSIVE AfterLastAt(_)
AfterLastAt(s) == IF ~Contains(s, "@") THEN s
                  ELSE AfterLastAt(Tail(s))

\* bleach.clean on text without markup: '>' is written as the entity &gt;
RECURSIVE Clean(_)
Clean(s) == IF s = <<>> THEN <<>>
            ELSE IF Head(s) = ">" THEN <<"&", "g", "t", ";">> \o Clean(Tail(s))
            ELSE <<Head(s)>> \o Clean(Tail(s))

(***************************************************************************)
(* Credential hasher (auth.py 12-32).  A digest string is the tuple of its *)
(* '$'-separated segments; a segment is a tuple of strings.  The salted    *)
(* hash functions are injective encodings of their arguments.              *)
(***************************************************************************)
SaltNames == <<"s1", "s2", "s3", "s4">>

\* the values bcrypt.gensalt() can return
Salts == {SaltNames[i] : i \in 1..NumSalts}

BcryptVersions == {"2a", "2b", "2y"}

\* bcrypt reads at most 72 bytes of the password
BcryptMaxBytes == 72

Truncated(password) ==
    IF Len(password) > BcryptMaxBytes THEN SubSeq(password, 1, BcryptMaxBytes)
    ELSE password

BcryptRaw(password, salt) == "bf(" \o Truncated(password) \o "," \o salt \o ")"

\* mutant: every call uses the same salt
HashPasswordFixedSalt(password, salt) ==
    << <<>>, <<"2b">>, <<"12">>, <<"s1", BcryptRaw(password, "s1")>> >>

\* bcrypt.hashpw(password, bcrypt.gensalt()): "$2b$12$" + salt + hash
HashPassword(password, salt) ==
    << <<>>, <<"2b">>, <<"12">>, <<salt, BcryptRaw(password, salt)>> >>

\* the digest parses as a bcrypt string: "$" version "$" cost "$" salt+hash
IsBcrypt(d) == /\ Len(d) = 4
               /\ d[1] = <<>>
               /\ Len(d[2]) = 1 /\ d[2][1] \in BcryptVersions
               /\ d[3] = <<"12">>
               /\ Len(d[4]) = 2

Sha256Hex(text) == "sha256(" \o text \o ")"

RECURSIVE SegText(_)
SegText(seg) == IF seg = <<>> THEN "" ELSE Head(seg) \o SegText(Tail(seg))

\* the legacy format: salt "$" sha256(password + salt)
LegacyDigest(password, salt) == << <<salt>>, <<Sha256Hex(password \o salt)>> >>

\* mutant: only bcrypt digests are verified
VerifyPasswordBcryptOnly(password, stored_hash) ==
    IF IsBcrypt(stored_hash)
    THEN BcryptRaw(password, stored_hash[4][1]) = stored_hash[4][2]
    ELSE FALSE

\* mutant: the legacy branch reads the first two segments and ignores the rest
VerifyPasswordFirstTwo(password, stored_hash) ==
    IF IsBcrypt(stored_hash)
    THEN BcryptRaw(password, stored_hash[4][1]) = stored_hash[4][2]
    ELSE IF Len(stored_hash) >= 2
    THEN <<Sha256Hex(password \o SegText(stored_hash[1]))>> = stored_hash[2]
    ELSE FALSE

\* mutant: a digest that cannot be parsed is accepted
VerifyPasswordLenient(password, stored_hash) ==
    IF IsBcrypt(stored_hash)
    THEN BcryptRaw(password, stored_hash[4][1]) = stored_hash[4][2]
    ELSE IF Len(stored_hash) = 2
    THEN <<Sha256Hex(password \o SegText(stored_hash[1]))>> = stored_hash[2]
    ELSE TRUE

VerifyPassword(password, stored_hash) ==
    IF IsBcrypt(stored_hash)
    THEN BcryptRaw(password, stored_hash[4][1]) = stored_hash[4][2]
    ELSE IF Len(stored_hash) = 2
    THEN <<Sha256Hex(password \o SegText(stored_hash[1]))>> = stored_hash[2]
    ELSE FALSE

(***************************************************************************)
(* Identity store and account manager (auth.py 34-85).                     *)
(***************************************************************************)
NoUser == [id |-> 0, username |-> <<>>, email |-> <<>>]

Public(u) == [id |-> u.id, username |-> u.username, email |-> u.email]

SetMax(S) == IF S = {} THEN 0 ELSE CHOOSE m \in S : \A x \in S : x <= m

\* rows whose username or email equals ident
UsersMatching(U, ident) == {u \in U : u.username = ident \/ u.email = ident}

\* the existence check of create_user
ExistingUser(U, username, email) ==
    {u \in U : u.username = username \/ u.email = email}

\* mutant: a table without the unique constraints
NoUniqueConstraint(U, username, email) == FALSE

\* the unique constraints of table users
UniqueViolation(U, username, email) ==
    \E u \in U : u.username = username \/ u.email = email

\* INSERT INTO users: the new row gets the next id, unless a constraint fails
InsertUser(U, username, email, password_hash) ==
    IF UniqueViolation(U, username, email)
    THEN [ok |-> FALSE, users |-> U, user |-> NoUser]
    ELSE LET row == [id |-> SetMax({u.id : u \in U}) + 1, username |-> username,
                     email |-> email, password_hash |-> password_hash]
         IN [ok |-> TRUE, users |-> U \cup {row}, user |-> Public(row)]

\* what a create_user call meets inside its try block: no exception, an
\* exception of the store (the query or the commit fails, for instance on a
\* locked database file), or an exception of bcrypt.hashpw; the package is not
\* pinned to a version and its newer builds raise ValueError for a password of
\* more than 72 bytes instead of truncating it
Faults == {"none", "store_error", "hash_error"}

\* the call raises inside hash_password
HashPasswordRaises(password, fault) ==
    fault = "hash_error" /\ Len(password) > BcryptMaxBytes

\* mutant: on a conflict the new digest is written to the existing row
CreateUserOverwrite(U, username, email, password, salt, fault) ==
    IF fault = "store_error" THEN [users |-> U, user |-> NoUser]
    ELSE IF ExistingUser(U, username, email) # {}
    THEN [users |-> {IF u \in ExistingUser(U, username, email)
                     THEN [u EXCEPT !.password_hash = HashPassword(password, salt)]
                     ELSE u : u \in U},
          user |-> NoUser]
    ELSE IF HashPasswordRaises(password, fault) THEN [users |-> U, user |-> NoUser]
    ELSE LET ins == InsertUser(U, username, email, HashPassword(password, salt))
         IN [users |-> ins.users, user |-> ins.user]

\* create_user: every exception raised in the try block is caught and the call
\* returns None, as it does when the username or the e-mail exists
CreateUser(U, username, email, password, salt, fault) ==
    IF fault = "store_error" THEN [users |-> U, user |-> NoUser]
    ELSE IF ExistingUser(U, username, email) # {}
    THEN [users |-> U, user |-> NoUser]
    ELSE IF HashPasswordRaises(password, fault) THEN [users |-> U, user |-> NoUser]
    ELSE LET ins == InsertUser(U, username, email, HashPassword(password, salt))
         IN [users |-> ins.users, user |-> ins.user]

\* the results authenticate_user can give: .first() may be any matching row
AuthenticateUser(U, ident, password) ==
    IF UsersMatching(U, ident) = {} THEN {NoUser}
    ELSE {IF VerifyPassword(password, u.password_hash) THEN Public(u) ELSE NoUser :
             u \in UsersMatching(U, ident)}

\* mutant: the bearer credential is looked up as a username only
GetCurrentUserByUsername(U, credentials) ==
    {u \in U : u.username = credentials}

\* the rows get_current_user can return for a bearer credential ({}: 401)
GetCurrentUser(U, credentials) == UsersMatching(U, credentials)

(***************************************************************************)
(* Task rows (database.py 30-42) and the UI's copies of them.              *)
(***************************************************************************)
Null == "<null>"

IdText == <<"1", "2", "3", "4", "5">>

\* str(db_task.id) and int(task_id)
Str(n) == IdText[n]

ToInt(text) == CHOOSE n \in 1..Len(IdText) : IdText[n] = text

SetMin(S) == CHOOSE m \in S : \A x \in S : m <= x

\* _db_task_to_task
DbTaskToTask(db_task) ==
    [id |-> Str(db_task.id), title |-> db_task.title,
     description |-> db_task.description, status |-> db_task.status,
     priority |-> db_task.priority,
     due_date |-> IF db_task.due_date = Null THEN "" ELSE db_task.due_date,
     created_at |-> db_task.created_at]

\* ORDER BY created_at DESC (created_at is a logical time: rows created later
\* have the larger value)
RECURSIVE NewestFirst(_)
NewestFirst(T) ==
    IF T = {} THEN <<>>
    ELSE LET newest == CHOOSE t \in T : \A o \in T : o.created_at <= t.created_at
         IN <<newest>> \o NewestFirst(T \ {newest})

\* load_tasks: the new value of State.tasks
LoadTasks(T, sess) ==
    IF ~sess.is_authenticated \/ sess.current_user = NoUser THEN <<>>
    ELSE LET rows == NewestFirst({t \in T : t.user_id = sess.current_user.id})
         IN [i \in 1..Len(rows) |-> DbTaskToTask(rows[i])]

(***************************************************************************)
(* Inputs of the requests and forms.                                       *)
(***************************************************************************)
Bob == <<"b", "o", "b">>
Ann == <<"a", "n", "n">>
TooShortName == <<"b", "o">>
MailLower == <<"a", "@", "b", ".", "c">>
MailUpper == <<"A", "@", "b", ".", "c">>
MailOther == <<"x", "@", "y", ".", "z">>
NoAtMail == <<"a", ".", "c">>

Underscores == <<"_", "_", "_">>
Blank == <<" ">>
SpaceAnn == <<" ", "a", "n", "n">>
TemporaryPassword == "temporary_password"

\* two passwords of 73 characters with the same first 72
LongPassword1 == "aaaaaaaaaaaaaaaaaaaaaaaaaaaaaaaaaaaaaaaaaaaaaaaaaaaaaaaaaaaaaaaaaaaaaaaa1"
LongPassword2 == "aaaaaaaaaaaaaaaaaaaaaaaaaaaaaaaaaaaaaaaaaaaaaaaaaaaaaaaaaaaaaaaaaaaaaaaa2"

\* bodies of POST /auth/register: <<username, email, password>>
RegisterRequests ==
    {<<Bob, MailLower, "secret1">>, <<Ann, MailUpper, "secret1">>,
     <<Ann, MailLower, "secret1">>, <<TooShortName, MailLower, "secret1">>,
     <<Underscores, MailLower, "secret1">>, <<Bob, NoAtMail, "secret1">>,
     <<Bob, MailLower, "short">>, <<Ann, MailUpper, LongPassword1>>}

\* register forms of the UI: <<username, email, password, confirm_password>>
RegisterForms ==
    {<<MailLower, MailOther, "secret1", "secret1">>,
     <<Bob, MailUpper, "hunter22", "hunter22">>,
     <<Blank, MailOther, "secret1", "secret1">>,
     <<Bob, MailOther, "secret1", "hunter22">>,
     <<Bob, MailOther, "short", "short">>}

\* bearer credentials presented to the REST API
Identifiers == {Bob, Ann, MailLower, MailUpper}

\* bodies of POST /auth/login: <<username, password>>
LoginRequests ==
    {<<Bob, "secret1">>, <<Ann, "secret1">>, <<MailLower, "secret1">>,
     <<MailUpper, "secret1">>, <<Bob, TemporaryPassword>>}

\* login forms of the UI: <<username, password>>
LoginForms ==
    {<<Bob, "secret1">>, <<SpaceAnn, "secret1">>, <<MailLower, "secret1">>,
     <<Blank, "secret1">>}

(***************************************************************************)
(* History record of the last completed operation.                         *)
(***************************************************************************)
NoOp == [op |-> "none", ident |-> <<>>, email |-> <<>>, password |-> "",
         status |-> 0, user |-> NoUser,
         called |-> FALSE, cu_username |-> <<>>, cu_email |-> <<>>,
         foreign |-> FALSE, task_id |-> ""]

\* a Task of the UI (models.py): the value of editing_task when it is None
NoUiTask == [id |-> "", title |-> <<>>, description |-> <<>>, status |-> "",
             priority |-> "", due_date |-> "", created_at |-> 0]

\* the task form, editing, filter and sort fields of a new State
NoUi == [new_task_title |-> <<>>, new_task_description |-> <<>>,
         new_task_priority |-> "medium", new_task_due_date |-> "",
         editing_task |-> NoUiTask, is_editing |-> FALSE,
         search_query |-> <<>>, filter_status |-> "all",
         sort_by |-> "created_at", sort_order |-> "desc"]

NoSession == [current_user |-> NoUser, is_authenticated |-> FALSE, auth_error |-> ""]

Idle == [pc |-> "idle", username |-> <<>>, email |-> <<>>, password |-> "",
         user |-> NoUser, raced |-> FALSE]

Workers == {1, 2}

\* a row written by the release that stored salt$sha256(password+salt)
LegacyUser == [id |-> 1, username |-> Ann, email |-> MailOther,
               password_hash |-> << <<"ab">>, <<Sha256Hex("secret1" \o "ab")>> >>]

\* the row migrate_db.py inserts when create_user fails: digest "default_hash"
DefaultHashUser == [id |-> 1, username |-> Ann, email |-> MailOther,
                    password_hash |-> << <<"default_hash">> >>]

\* no hash_password or verify_password call yet
NoCalls == [produced |-> <<>>, verified |-> FALSE, password |-> "",
            stored |-> [kind |-> "none", password |-> "", digest |-> <<>>],
            result |-> FALSE]

\* migrate_passwords is not running
NoRun == [pc |-> "idle", todo |-> {}, pending |-> {}, before |-> {}, after |-> {},
          migrated_count |-> 0, returned |-> "none", second |-> FALSE]

\* the users table when the application starts
InitialStores == {{}, {LegacyUser}, {DefaultHashUser}}

Init ==
    /\ users \in InitialStores
    /\ tasks = {}
    /\ session = NoSession
    /\ ui_tasks = <<>>
    /\ reg = [w \in Workers |-> Idle]
    /\ creator = [i \in 1..MaxTaskId |-> 0]
    /\ last = NoOp
    /\ hasher = NoCalls
    /\ mig = NoRun
    /\ ui = NoUi

(***************************************************************************)
(* REST API: /auth (api.py 91-113, 205-267).                               *)
(***************************************************************************)
ValidEmailFormat(email) == Contains(email, "@") /\ Contains(AfterLastAt(email), ".")

\* the request model UserRegister: field constraints, then validate_email_format
ValidUserRegister(username, email, password) ==
    /\ Len(username) >= UsernameMinLen /\ Len(username) <= UsernameMaxLen
    /\ \A i \in 1..Len(username) : username[i] \in Letters \cup Digits \cup {"_"}
    /\ Len(email) <= EmailMaxLen
    /\ Len(password) >= PasswordMinLen /\ Len(password) <= PasswordMaxLen
    /\ ValidEmailFormat(email)

\* register_user: [status, user, users, called, cu_username, cu_email]
ApiRegisterUser(U, user_username, user_email, password, salt, fault) ==
    LET username == Clean(Strip(user_username))
        email == Lower(Strip(user_email))
        none == [status |-> 422, user |-> NoUser, users |-> U, called |-> FALSE,
                 cu_username |-> <<>>, cu_email |-> <<>>]
    IN IF ~ValidUserRegister(user_username, user_email, password) THEN none
       ELSE IF ~IsAlnum(RemoveUnderscores(username)) THEN [none EXCEPT !.status = 400]
       ELSE IF ~ValidEmailFormat(email) THEN [none EXCEPT !.status = 400]
       ELSE LET r == CreateUser(U, username, email, password, salt, fault)
            IN [status |-> IF r.user = NoUser THEN 400 ELSE 201,
                user |-> r.user, users |-> r.users, called |-> TRUE,
                cu_username |-> username, cu_email |-> email]

ApiRegister ==
    \E body \in RegisterRequests, salt \in Salts, fault \in Faults :
        LET username == body[1]
            email == body[2]
            password == body[3]
            r == ApiRegisterUser(users, username, email, password, salt, fault)
        IN /\ Cardinality(r.users) <= MaxUsers
           /\ users' = r.users
           /\ last' = [NoOp EXCEPT !.op = "api_register", !.ident = username,
                          !.email = email, !.password = password,
                          !.status = r.status, !.user = r.user, !.called = r.called,
                          !.cu_username = r.cu_username, !.cu_email = r.cu_email]
           /\ UNCHANGED <<tasks, session, ui_tasks, reg, creator, hasher, mig, ui>>

\* login_user: the (status, user) pairs the handler can answer with
ApiLoginUser(U, username, password) ==
    {[status |-> IF user = NoUser THEN 401 ELSE 200, user |-> user] :
        user \in AuthenticateUser(U, username, password)}

ApiLogin ==
    \E body \in LoginRequests :
        \E r \in ApiLoginUser(users, body[1], body[2]) :
            /\ last' = [NoOp EXCEPT !.op = "api_login", !.ident = body[1],
                           !.password = body[2], !.status = r.status, !.user = r.user]
            /\ UNCHANGED <<users, tasks, session, ui_tasks, reg, creator, hasher, mig, ui>>

\* get_current_user_info behind Depends(get_current_user)
ApiMeResponses(U, credentials) ==
    IF GetCurrentUser(U, credentials) = {}
    THEN {[status |-> 401, user |-> NoUser]}
    ELSE {[status |-> 200, user |-> Public(u)] : u \in GetCurrentUser(U, credentials)}

ApiMe ==
    \E credentials \in Identifiers :
        \E r \in ApiMeResponses(users, credentials) :
            /\ last' = [NoOp EXCEPT !.op = "api_me", !.ident = credentials,
                           !.status = r.status, !.user = r.user]
            /\ UNCHANGED <<users, tasks, session, ui_tasks, reg, creator, hasher, mig, ui>>

(***************************************************************************)
(* UI session: register_user, login_user, logout_user (state.py 595-658).  *)
(***************************************************************************)
\* register_user: [session, ui_tasks, users, user, called, cu_username, cu_email]
UiRegisterUser(U, T, sess, uit, form_username, form_email, password, confirm_password, salt, fault) ==
    LET username == Strip(form_username)
        email == Strip(form_email)
        fail(msg) == [session |-> [sess EXCEPT !.auth_error = msg], ui_tasks |-> uit,
                      users |-> U, user |-> NoUser, called |-> FALSE,
                      cu_username |-> <<>>, cu_email |-> <<>>]
    IN IF username = <<>> \/ email = <<>> \/ password = ""
       THEN fail("All fields are required")
       ELSE IF password # confirm_password THEN fail("Passwords do not match")
       ELSE IF Len(password) < UiPasswordMinLen
       THEN fail("Password must be at least 6 characters")
       ELSE LET r == CreateUser(U, username, email, password, salt, fault)
                called == [called |-> TRUE, cu_username |-> username,
                           cu_email |-> email]
            IN IF r.user # NoUser
               THEN LET s1 == [current_user |-> r.user, is_authenticated |-> TRUE,
                               auth_error |-> ""]
                    IN [session |-> s1, ui_tasks |-> LoadTasks(T, s1),
                        users |-> r.users, user |-> r.user] @@ called
               ELSE [fail("Username or email already exists") EXCEPT
                        !.called = TRUE, !.cu_username = username,
                        !.cu_email = email]

UiRegister ==
    \E form \in RegisterForms, salt \in Salts, fault \in Faults :
        LET username == form[1]
            email == form[2]
            password == form[3]
            confirm_password == form[4]
            r == UiRegisterUser(users, tasks, session, ui_tasks, username, email,
                                password, confirm_password, salt, fault)
        IN /\ Cardinality(r.users) <= MaxUsers
           /\ users' = r.users
           /\ session' = r.session
           /\ ui_tasks' = r.ui_tasks
           /\ last' = [NoOp EXCEPT !.op = "ui_register", !.user = r.user,
                          !.called = r.called, !.cu_username = r.cu_username,
                          !.cu_email = r.cu_email]
           /\ UNCHANGED <<tasks, reg, creator, hasher, mig, ui>>

\* login_user: the (session, ui_tasks, user) outcomes
UiLoginUser(U, T, sess, uit, form_username, password) ==
    LET username == Strip(form_username)
    IN IF username = <<>> \/ password = ""
       THEN {[session |-> [sess EXCEPT !.auth_error =
                              "Username and password are required"],
              ui_tasks |-> uit, user |-> NoUser]}
       ELSE {IF user # NoUser
             THEN LET s1 == [current_user |-> user, is_authenticated |-> TRUE,
                             auth_error |-> ""]
                  IN [session |-> s1, ui_tasks |-> LoadTasks(T, s1), user |-> user]
             ELSE [session |-> [sess EXCEPT !.auth_error =
                                   "Invalid username or password"],
                   ui_tasks |-> uit, user |-> NoUser] :
                user \in AuthenticateUser(U, username, password)}

UiLoginWith(forms) ==
    \E form \in forms :
        \E r \in UiLoginUser(users, tasks, session, ui_tasks, form[1], form[2]) :
            /\ session' = r.session
            /\ ui_tasks' = r.ui_tasks
            /\ last' = [NoOp EXCEPT !.op = "ui_login", !.user = r.user]
            /\ UNCHANGED <<users, tasks, reg, creator, hasher, mig, ui>>

UiLogin == UiLoginWith(LoginForms)

\* logout_user
UiLogout ==
    /\ session' = [current_user |-> NoUser, is_authenticated |-> FALSE,
                   auth_error |-> ""]
    /\ ui_tasks' = <<>>
    /\ last' = [NoOp EXCEPT !.op = "ui_logout"]
    /\ UNCHANGED <<users, tasks, reg, creator, hasher, mig, ui>>

(***************************************************************************)
(* Password migrator (migrate_passwords.py 13-48).                         *)
(***************************************************************************)
\* the digest string contains the character '$'
HasDollar(password_hash) == Len(password_hash) > 1

\* the users table after one committed run; salt_of: the salt drawn for each row
MigratedUsers(U, salt_of) ==
    {IF HasDollar(u.password_hash)
     THEN [u EXCEPT !.password_hash = HashPassword(TemporaryPassword, salt_of[u])]
     ELSE u : u \in U}

MigratePasswords ==
    \E salt_of \in [users -> Salts] :
        /\ users' = MigratedUsers(users, salt_of)
        /\ last' = [NoOp EXCEPT !.op = "migrate_passwords", !.status =
                       Cardinality({u \in users : HasDollar(u.password_hash)})]
        /\ UNCHANGED <<tasks, session, ui_tasks, reg, creator, hasher, mig, ui>>

NextAuth ==
    \/ ApiRegister
    \/ ApiLogin
    \/ ApiMe
    \/ UiRegister
    \/ UiLogin
    \/ UiLogout
    \/ MigratePasswords

SpecAuth == Init /\ [][NextAuth]_vars

(***************************************************************************)
(* REST API: /tasks (api.py 115-165, 192-203, 269-540).                    *)
(***************************************************************************)
AllowedPriorities == {"low", "medium", "high"}
AllowedStatuses == {"todo", "in_progress", "done"}

TitleMaxLen == 255
DescriptionMaxLen == 1000

\* strings matching ^\d{4}-\d{2}-\d{2}$ among the due dates of the requests
DatePatternMatches == {"2024-01-01"}

\* an optional text field of a request body that is None
AbsentText == <<"<absent>">>

NoTask == [id |-> 0, title |-> <<>>, description |-> <<>>, status |-> "",
           priority |-> "", due_date |-> Null]

\* task_to_response (the timestamps are left out)
TaskToResponse(task) ==
    [id |-> task.id, title |-> task.title, description |-> task.description,
     status |-> task.status, priority |-> task.priority, due_date |-> task.due_date]

\* SQLite's LIKE: '%' matches any text, '_' any character, ASCII case is ignored
RECURSIVE LikeMatch(_, _)
LikeMatch(pattern, text) ==
    IF pattern = <<>> THEN text = <<>>
    ELSE IF Head(pattern) = "%"
    THEN LikeMatch(Tail(pattern), text)
         \/ (text # <<>> /\ LikeMatch(pattern, Tail(text)))
    ELSE /\ text # <<>>
         /\ Head(pattern) = "_" \/ LowerChar(Head(pattern)) = LowerChar(Head(text))
         /\ LikeMatch(Tail(pattern), Tail(text))

\* Column.contains(other): column LIKE '%' || other || '%'
ColumnContains(column, other) == LikeMatch(<<"%">> \o other \o <<"%">>, column)

\* .filter(TaskModel.id == task_id, TaskModel.user_id == current_user.id)
OwnedTask(T, task_id, current_user) ==
    {t \in T : t.id = task_id /\ t.user_id = current_user.id}

\* get_tasks: the rows of the response (a truthy filter narrows the query)
ApiGetTasks(T, current_user, status, priority, search) ==
    {TaskToResponse(t) : t \in
        {t \in T : /\ t.user_id = current_user.id
                   /\ status \in {Null, ""} \/ t.status = status
                   /\ priority \in {Null, ""} \/ t.priority = priority
                   /\ search \in {AbsentText, <<>>}
                      \/ ColumnContains(t.title, search)
                      \/ ColumnContains(t.description, search)}}

\* mutant: a row of another identity is answered with 403 instead of 404
ApiGetTaskForbidden(T, current_user, task_id) ==
    IF \E t \in T : t.id = task_id /\ t.user_id # current_user.id
    THEN [status |-> 403, task |-> NoTask, tasks |-> T]
    ELSE IF {t \in T : t.id = task_id} = {}
    THEN [status |-> 404, task |-> NoTask, tasks |-> T]
    ELSE [status |-> 200,
          task |-> TaskToResponse(CHOOSE t \in T : t.id = task_id), tasks |-> T]

\* get_task
ApiGetTask(T, current_user, task_id) ==
    IF OwnedTask(T, task_id, current_user) = {}
    THEN [status |-> 404, task |-> NoTask, tasks |-> T]
    ELSE [status |-> 200,
          task |-> TaskToResponse(CHOOSE t \in OwnedTask(T, task_id, current_user) : TRUE),
          tasks |-> T]

\* the request model TaskCreate
ValidTaskCreate(body) ==
    /\ Len(body.title) >= 1 /\ Len(body.title) <= TitleMaxLen
    /\ Len(body.description) <= DescriptionMaxLen
    /\ body.priority \in AllowedPriorities
    /\ body.due_date = Null \/ body.due_date \in DatePatternMatches

\* mutant: the new row is given to the first identity of the table
NewTaskRowFirstUser(T, current_user, title, description, priority, due_date) ==
    [id |-> SetMax({t.id : t \in T}) + 1, user_id |-> 1,
     title |-> title, description |-> description, status |-> "todo",
     priority |-> priority, due_date |-> due_date]

\* the row create_task adds for current_user
NewTaskRow(T, current_user, title, description, priority, due_date) ==
    [id |-> SetMax({t.id : t \in T}) + 1, user_id |-> current_user.id,
     title |-> title, description |-> description, status |-> "todo",
     priority |-> priority, due_date |-> due_date]

\* mutant: create_task stores the status the request body carries
ApiCreateTaskBodyStatus(T, current_user, body) ==
    LET title == Strip(body.title)
        description == Strip(body.description)
        row == NewTaskRow(T, current_user, Clean(title), Clean(description),
                          body.priority, body.due_date)
        new_task == IF "status" \in DOMAIN body
                    THEN [row EXCEPT !.status = body.status] ELSE row
    IN IF ~ValidTaskCreate(body) THEN [status |-> 422, task |-> NoTask, tasks |-> T]
       ELSE IF title = <<>> THEN [status |-> 400, task |-> NoTask, tasks |-> T]
       ELSE [status |-> 201, task |-> TaskToResponse(new_task),
             tasks |-> T \cup {new_task}]

\* create_task (TaskCreate has no status field: a status in the body is dropped
\* when the body is parsed)
ApiCreateTask(T, current_user, body) ==
    LET title == Strip(body.title)
        description == Strip(body.description)
        new_task == NewTaskRow(T, current_user, Clean(title), Clean(description),
                               body.priority, body.due_date)
    IN IF ~ValidTaskCreate(body) THEN [status |-> 422, task |-> NoTask, tasks |-> T]
       ELSE IF title = <<>> THEN [status |-> 400, task |-> NoTask, tasks |-> T]
       ELSE [status |-> 201, task |-> TaskToResponse(new_task),
             tasks |-> T \cup {new_task}]

\* the request model TaskUpdate
ValidTaskUpdate(body) ==
    /\ body.title = AbsentText
       \/ (Len(body.title) >= 1 /\ Len(body.title) <= TitleMaxLen)
    /\ body.description = AbsentText \/ Len(body.description) <= DescriptionMaxLen
    /\ body.priority = Null \/ body.priority \in AllowedPriorities
    /\ body.status = Null \/ body.status \in AllowedStatuses
    /\ body.due_date = Null \/ body.due_date \in DatePatternMatches

\* mutant: update_task replaces the whole row, an absent description becomes empty
UpdatedTaskReplace(task, body) ==
    [task EXCEPT
        !.title = IF body.title # AbsentText THEN Strip(body.title) ELSE @,
        !.description = IF body.description # AbsentText
                        THEN Strip(body.description) ELSE <<>>,
        !.status = IF body.status # Null THEN body.status ELSE @,
        !.priority = IF body.priority # Null THEN body.priority ELSE @,
        !.due_date = IF body.due_date # Null THEN body.due_date ELSE @]

\* the assignments of update_task to the row it found
UpdatedTask(task, body) ==
    [task EXCEPT
        !.title = IF body.title # AbsentText THEN Strip(body.title) ELSE @,
        !.description = IF body.description # AbsentText
                        THEN Strip(body.description) ELSE @,
        !.status = IF body.status # Null THEN body.status ELSE @,
        !.priority = IF body.priority # Null THEN body.priority ELSE @,
        !.due_date = IF body.due_date # Null THEN body.due_date ELSE @]

\* update_task (PUT)
ApiUpdateTask(T, current_user, task_id, body) ==
    IF ~ValidTaskUpdate(body) THEN [status |-> 422, task |-> NoTask, tasks |-> T]
    ELSE IF body.title # AbsentText /\ Strip(body.title) = <<>>
    THEN [status |-> 400, task |-> NoTask, tasks |-> T]
    ELSE IF OwnedTask(T, task_id, current_user) = {}
    THEN [status |-> 404, task |-> NoTask, tasks |-> T]
    ELSE LET task == CHOOSE t \in OwnedTask(T, task_id, current_user) : TRUE
             updated == UpdatedTask(task, body)
         IN [status |-> 200, task |-> TaskToResponse(updated),
             tasks |-> (T \ {task}) \cup {updated}]

\* update_task_status (PATCH): the response carries task_id and new_status
ApiUpdateTaskStatus(T, current_user, task_id, new_status) ==
    IF OwnedTask(T, task_id, current_user) = {}
    THEN [status |-> 404, task |-> NoTask, tasks |-> T]
    ELSE LET task == CHOOSE t \in OwnedTask(T, task_id, current_user) : TRUE
         IN [status |-> 200,
             task |-> [NoTask EXCEPT !.id = task_id, !.status = new_status],
             tasks |-> (T \ {task}) \cup {[task EXCEPT !.status = new_status]}]

\* mutant: delete_task answers 200 without deleting the row
ApiDeleteTaskKeepsRow(T, current_user, task_id) ==
    IF OwnedTask(T, task_id, current_user) = {}
    THEN [status |-> 404, task |-> NoTask, tasks |-> T]
    ELSE [status |-> 200, task |-> [NoTask EXCEPT !.id = task_id], tasks |-> T]

\* delete_task: the response carries task_id
ApiDeleteTask(T, current_user, task_id) ==
    IF OwnedTask(T, task_id, current_user) = {}
    THEN [status |-> 404, task |-> NoTask, tasks |-> T]
    ELSE [status |-> 200, task |-> [NoTask EXCEPT !.id = task_id],
          tasks |-> T \ OwnedTask(T, task_id, current_user)]

(***************************************************************************)
(* The task requests of the model.                                         *)
(***************************************************************************)
\* users registered before the task requests start: Bob through the REST API,
\* then an identity named like Bob's e-mail address through the UI form
TaskUsers ==
    {[id |-> 1, username |-> Bob, email |-> MailLower,
      password_hash |-> HashPassword("secret1", "s1")],
     [id |-> 2, username |-> MailLower, email |-> MailOther,
      password_hash |-> HashPassword("secret1", "s1")]}

\* bearer credentials: Bob's username, the string shared by both identities, an
\* unknown string
TaskCredentials == {Bob, MailLower, Ann}

TaskIds == 1..MaxTaskId

TitleAb == <<"a", "b">>

\* bodies of POST /tasks
CreateBodies ==
    {[title |-> TitleAb, description |-> <<>>, priority |-> "medium",
      due_date |-> Null],
     [title |-> <<" ", ">">>, description |-> <<"c">>, priority |-> "high",
      due_date |-> "2024-01-01"],
     [title |-> <<" ">>, description |-> <<>>, priority |-> "medium",
      due_date |-> Null],
     [title |-> TitleAb, description |-> <<>>, priority |-> "urgent",
      due_date |-> Null],
     [title |-> TitleAb, description |-> <<>>, priority |-> "low",
      due_date |-> Null, status |-> "done"]}

NoChange == [title |-> AbsentText, description |-> AbsentText, status |-> Null,
             priority |-> Null, due_date |-> Null]

\* bodies of PUT /tasks/{task_id}
UpdateBodies ==
    {[NoChange EXCEPT !.title = <<" ", "B">>],
     [NoChange EXCEPT !.status = "done"],
     [NoChange EXCEPT !.title = <<" ">>],
     [NoChange EXCEPT !.status = "bogus"],
     [NoChange EXCEPT !.description = <<"d", " ">>, !.priority = "high",
                      !.due_date = "2024-01-01"]}

\* bodies of PATCH /tasks/{task_id}/status
StatusBodies == {"bogus"}

\* query parameters of GET /tasks
StatusFilters == {Null, "todo"}
PriorityFilters == {Null, "high"}
SearchFilters == {AbsentText, <<"A">>, <<"_">>}

\* the queries sent: <<status, priority, search>>
ListQueries ==
    {<<Null, Null, AbsentText>>, <<"todo", "high", AbsentText>>,
     <<Null, Null, <<"A">> >>, <<Null, Null, <<"_">> >>}

\* the task id names a row of another identity than current_user
Foreign(T, current_user, task_id) ==
    \E t \in T : t.id = task_id /\ t.user_id # current_user.id

Unauthorized(op, credentials) ==
    /\ GetCurrentUser(users, credentials) = {}
    /\ last' = [NoOp EXCEPT !.op = op, !.status = 401]
    /\ UNCHANGED <<users, tasks, session, ui_tasks, reg, creator, hasher, mig, ui>>

Answered(op, credentials, current_user, task_id, r) ==
    last' = [NoOp EXCEPT !.op = op, !.status = r.status,
                !.user = Public(current_user),
                !.foreign = Foreign(tasks, current_user, task_id)]

GetTasks ==
    \E credentials \in TaskCredentials :
        \/ Unauthorized("get_tasks", credentials)
        \/ \E current_user \in GetCurrentUser(users, credentials),
              query \in ListQueries :
               /\ Answered("get_tasks", credentials, current_user, 0,
                           [status |-> 200,
                            tasks |-> ApiGetTasks(tasks, current_user, query[1],
                                                  query[2], query[3])])
               /\ UNCHANGED <<users, tasks, session, ui_tasks, reg, creator, hasher, mig, ui>>

GetTask ==
    \E credentials \in TaskCredentials, task_id \in TaskIds :
        \/ Unauthorized("get_task", credentials)
        \/ \E current_user \in GetCurrentUser(users, credentials) :
               /\ Answered("get_task", credentials, current_user, task_id,
                           ApiGetTask(tasks, current_user, task_id))
               /\ UNCHANGED <<users, tasks, session, ui_tasks, reg, creator, hasher, mig, ui>>

CreateTask ==
    \E credentials \in TaskCredentials, body \in CreateBodies :
        \/ Unauthorized("create_task", credentials)
        \/ \E current_user \in GetCurrentUser(users, credentials) :
               LET r == ApiCreateTask(tasks, current_user, body)
               IN /\ \A t \in r.tasks : t.id <= MaxTaskId
                  /\ tasks' = r.tasks
                  /\ creator' = IF r.status = 201
                                THEN [creator EXCEPT ![r.task.id] = current_user.id]
                                ELSE creator
                  /\ Answered("create_task", credentials, current_user, r.task.id, r)
                  /\ UNCHANGED <<users, session, ui_tasks, reg, hasher, mig, ui>>

UpdateTask ==
    \E credentials \in TaskCredentials, task_id \in TaskIds, body \in UpdateBodies :
        \/ Unauthorized("update_task", credentials)
        \/ \E current_user \in GetCurrentUser(users, credentials) :
               LET r == ApiUpdateTask(tasks, current_user, task_id, body)
               IN /\ tasks' = r.tasks
                  /\ Answered("update_task", credentials, current_user, task_id, r)
                  /\ UNCHANGED <<users, session, ui_tasks, reg, creator, hasher, mig, ui>>

UpdateTaskStatus ==
    \E credentials \in TaskCredentials, task_id \in TaskIds,
       new_status \in StatusBodies :
        \/ Unauthorized("update_task_status", credentials)
        \/ \E current_user \in GetCurrentUser(users, credentials) :
               LET r == ApiUpdateTaskStatus(tasks, current_user, task_id, new_status)
               IN /\ tasks' = r.tasks
                  /\ Answered("update_task_status", credentials, current_user,
                              task_id, r)
                  /\ UNCHANGED <<users, session, ui_tasks, reg, creator, hasher, mig, ui>>

DeleteTask ==
    \E credentials \in TaskCredentials, task_id \in TaskIds :
        \/ Unauthorized("delete_task", credentials)
        \/ \E current_user \in GetCurrentUser(users, credentials) :
               LET r == ApiDeleteTask(tasks, current_user, task_id)
               IN /\ tasks' = r.tasks
                  /\ creator' = IF r.status = 200
                                THEN [creator EXCEPT ![task_id] = 0 - current_user.id]
                                ELSE creator
                  /\ Answered("delete_task", credentials, current_user, task_id, r)
                  /\ UNCHANGED <<users, session, ui_tasks, reg, hasher, mig, ui>>

InitTasks ==
    /\ users = TaskUsers
    /\ tasks = {}
    /\ session = NoSession
    /\ ui_tasks = <<>>
    /\ reg = [w \in Workers |-> Idle]
    /\ creator = [i \in 1..MaxTaskId |-> 0]
    /\ last = NoOp
    /\ hasher = NoCalls
    /\ mig = NoRun
    /\ ui = NoUi

NextTasks ==
    \/ GetTasks
    \/ GetTask
    \/ CreateTask
    \/ UpdateTask
    \/ UpdateTaskStatus
    \/ DeleteTask

SpecTasks == InitTasks /\ [][NextTasks]_vars

(***************************************************************************)
(* Properties of the ownership guard, checked under SpecTasks.             *)
(***************************************************************************)
\* the body reaches the lookup of update_task (no 422, no 400)
WellFormedUpdate(body) ==
    /\ ValidTaskUpdate(body)
    /\ body.title = AbsentText \/ Strip(body.title) # <<>>

NotFound(T) == [status |-> 404, task |-> NoTask, tasks |-> T]

\* the identities a request can be authenticated as
Requesters == UNION {GetCurrentUser(users, c) : c \in TaskCredentials}

\* the four handlers answer 404 for this task, with none of its data, and leave
\* the table of tasks as it is (a malformed PUT body is refused with 422 or 400
\* before the lookup, with the same effect on the table)
Hidden(current_user, t) ==
    /\ ApiGetTask(tasks, current_user, t.id) = NotFound(tasks)
    /\ \A body \in UpdateBodies :
           LET r == ApiUpdateTask(tasks, current_user, t.id, body)
           IN /\ r.tasks = tasks /\ r.task = NoTask
              /\ r.status \in {404, 400, 422}
              /\ WellFormedUpdate(body) => r.status = 404
    /\ \A new_status \in StatusBodies \cup AllowedStatuses :
           ApiUpdateTaskStatus(tasks, current_user, t.id, new_status) = NotFound(tasks)
    /\ ApiDeleteTask(tasks, current_user, t.id) = NotFound(tasks)

\* C1: in every reachable state, for distinct stored identities A and B and a
\* task owned by B, a request that carries A's credential (A's username or A's
\* e-mail) gets 404 from get_task, update_task, update_task_status and
\* delete_task, carries none of the task's data and leaves the table of tasks
\* as it is.
C1_ForeignTaskNotFound ==
    \A A, B \in users :
        A # B =>
            \A credentials \in {A.username, A.email} :
                \A current_user \in GetCurrentUser(users, credentials) :
                    \A t \in tasks : t.user_id = B.id => Hidden(current_user, t)

\* the same for the identity that get_current_user resolved the credential to:
\* it is refused every task whose user_id is not its id
ResolvedRequesterIsRefused ==
    \A current_user \in Requesters, t \in tasks :
        t.user_id # current_user.id => Hidden(current_user, t)

\* the table without the rows with this id that belong to other identities
WithoutForeign(T, current_user, task_id) ==
    {t \in T : ~(t.id = task_id /\ t.user_id # current_user.id)}

SameOutcome(r1, r2) == r1.status = r2.status /\ r1.task = r2.task

\* C2: for a requester and a task id, the answers of get_task, update_task,
\* update_task_status and delete_task are the same, and the table is left as it
\* was, whether the id names a task of another identity or no task at all.
C2_ForeignLikeAbsent ==
    \A current_user \in Requesters, task_id \in TaskIds :
        Foreign(tasks, current_user, task_id) =>
            LET T0 == WithoutForeign(tasks, current_user, task_id)
            IN /\ OwnedTask(T0, task_id, current_user) = {}
               /\ SameOutcome(ApiGetTask(tasks, current_user, task_id),
                              ApiGetTask(T0, current_user, task_id))
               /\ ApiGetTask(tasks, current_user, task_id).tasks = tasks
               /\ \A body \in UpdateBodies :
                      /\ SameOutcome(ApiUpdateTask(tasks, current_user, task_id, body),
                                     ApiUpdateTask(T0, current_user, task_id, body))
                      /\ ApiUpdateTask(tasks, current_user, task_id, body).tasks = tasks
                      /\ ApiUpdateTask(T0, current_user, task_id, body).tasks = T0
               /\ \A new_status \in StatusBodies :
                      /\ SameOutcome(
                             ApiUpdateTaskStatus(tasks, current_user, task_id, new_status),
                             ApiUpdateTaskStatus(T0, current_user, task_id, new_status))
                      /\ ApiUpdateTaskStatus(tasks, current_user, task_id,
                                             new_status).tasks = tasks
                      /\ ApiUpdateTaskStatus(T0, current_user, task_id,
                                             new_status).tasks = T0
               /\ SameOutcome(ApiDeleteTask(tasks, current_user, task_id),
                              ApiDeleteTask(T0, current_user, task_id))
               /\ ApiDeleteTask(tasks, current_user, task_id).tasks = tasks
               /\ ApiDeleteTask(T0, current_user, task_id).tasks = T0

\* a GET of another identity's task was answered 404 while a lower id is free
C2_Witness ==
    /\ last.op = "get_task" /\ last.foreign /\ last.status = 404
    /\ \E t \in tasks : t.id = 2 /\ t.user_id # last.user.id
    /\ ~\E t \in tasks : t.id = 1

\* C3: every stored task's user_id is the id of the identity whose request
\* created the row, after any sequence of requests by any users.
C3_OwnerIsCreator ==
    \A t \in tasks : t.user_id = creator[t.id] /\ \E u \in users : u.id = t.user_id

\* another identity's PATCH was refused and the task is still its creator's
C3_Witness ==
    /\ last.op = "update_task_status" /\ last.foreign /\ last.status = 404
    /\ \E t \in tasks : /\ t.user_id = 2 /\ creator[t.id] = 2
                        /\ t.title = <<"B">> /\ last.user.id = 1

\* text contains part, ignoring ASCII case
IsInfix(part, text) ==
    \E i \in 0..Len(text) :
        /\ i + Len(part) <= Len(text)
        /\ \A j \in 1..Len(part) : LowerChar(text[i + j]) = LowerChar(part[j])

\* C4: get_tasks returns exactly the requester's tasks that match every
\* supplied filter: status equal, priority equal, search contained in the
\* title or the description.
C4_ListIsOwnedAndFiltered ==
    \A current_user \in Requesters, status \in StatusFilters,
       priority \in PriorityFilters, search \in SearchFilters :
        ApiGetTasks(tasks, current_user, status, priority, search) =
            {TaskToResponse(t) : t \in
                {t \in tasks : /\ t.user_id = current_user.id
                               /\ status = Null \/ t.status = status
                               /\ priority = Null \/ t.priority = priority
                               /\ search = AbsentText
                                  \/ IsInfix(search, t.title)
                                  \/ IsInfix(search, t.description)}}

(***************************************************************************)
(* Concurrent create_user calls (auth.py 37-65): the existence check and   *)
(* the insert of one call are two steps, and another call may run between. *)
(***************************************************************************)
\* the arguments with which the REST handler and the UI handler call create_user
CreateUserCalls ==
    {<<Clean(Strip(b[1])), Lower(Strip(b[2])), b[3]>> :
        b \in {b \in RegisterRequests :
                  ApiRegisterUser({}, b[1], b[2], b[3], "s1", "none").called}}
    \cup {<<Strip(f[1]), Strip(f[2]), f[3]>> :
        f \in {f \in RegisterForms :
                  UiRegisterUser({}, {}, NoSession, <<>>, f[1], f[2], f[3], f[4],
                                 "s1", "none").called}}

Returned(call, user) ==
    [NoOp EXCEPT !.op = "create_user", !.called = TRUE, !.cu_username = call.username,
                 !.cu_email = call.email, !.password = call.password, !.user = user]

\* create_user up to the existence check: return None, or go on to the insert
RegCheck(w) ==
    /\ reg[w].pc \in {"idle", "done"}
    /\ \E args \in CreateUserCalls :
        LET call == [Idle EXCEPT !.username = args[1], !.email = args[2],
                                 !.password = args[3]]
            other == CHOOSE o \in Workers : o # w
        IN IF ExistingUser(users, args[1], args[2]) # {}
           THEN /\ reg' = [reg EXCEPT ![w] = [call EXCEPT !.pc = "done"]]
                /\ last' = Returned(call, NoUser)
           ELSE /\ reg' = IF reg[other].pc = "checked"
                          THEN [reg EXCEPT ![w] = [call EXCEPT !.pc = "checked",
                                                               !.raced = TRUE],
                                           ![other].raced = TRUE]
                          ELSE [reg EXCEPT ![w] = [call EXCEPT !.pc = "checked"]]
                /\ last' = [NoOp EXCEPT !.op = "create_user_check"]
    /\ UNCHANGED <<users, tasks, session, ui_tasks, creator, hasher, mig, ui>>

\* create_user from hash_password on: the insert commits, or it raises and the
\* handler of the exception returns None
RegInsert(w) ==
    /\ reg[w].pc = "checked"
    /\ \E salt \in Salts :
        LET ins == InsertUser(users, reg[w].username, reg[w].email,
                              HashPassword(reg[w].password, salt))
        IN /\ Cardinality(ins.users) <= MaxUsers
           /\ users' = ins.users
           /\ reg' = [reg EXCEPT ![w].pc = "done", ![w].user = ins.user]
           /\ last' = Returned(reg[w], ins.user)
    /\ UNCHANGED <<tasks, session, ui_tasks, creator, hasher, mig, ui>>

NextRace ==
    \/ \E w \in Workers : RegCheck(w)
    \/ \E w \in Workers : RegInsert(w)
    \/ ApiLogin
    \/ MigratePasswords

SpecRace == Init /\ [][NextRace]_vars

C6_ConflictLeavesStore ==
    [][(/\ last'.called
        /\ \E u \in users : u.username = last'.cu_username \/ u.email = last'.cu_email)
       => (/\ last'.user = NoUser
           /\ users' = users
           /\ last'.op = "api_register" => last'.status = 400)]_vars

\* a registration was refused for the e-mail alone
C6_Witness ==
    /\ last.called /\ last.user = NoUser /\ last.op = "api_register"
    /\ \E u \in users : u.email = last.cu_email /\ u.username # last.cu_username
    /\ ~\E u \in users : u.username = last.cu_username

\* C7: no two distinct stored identities have the same id, the same username
\* or the same e-mail.
C7_UniqueIdentities ==
    \A u1, u2 \in users :
        u1 # u2 => /\ u1.id # u2.id
                   /\ u1.username # u2.username
                   /\ u1.email # u2.email

\* two identities are stored, one of them registered by a racing call
C7_Witness ==
    /\ Cardinality(users) = 2
    /\ \E w \in Workers : reg[w].pc = "done" /\ reg[w].raced /\ reg[w].user # NoUser

\* C8: of two create_user calls with the same username or the same e-mail that
\* both passed the existence check before either inserted, at most one creates
\* an identity; the other returns no user.
C8_RaceHasOneWinner ==
    \A w1, w2 \in Workers :
        (/\ w1 # w2
         /\ reg[w1].pc = "done" /\ reg[w2].pc = "done"
         /\ reg[w1].raced /\ reg[w2].raced
         /\ reg[w1].username = reg[w2].username \/ reg[w1].email = reg[w2].email)
        => (reg[w1].user = NoUser \/ reg[w2].user = NoUser)

\* both racing calls are done: one created the identity, the other did not
C8_Witness ==
    \E w1, w2 \in Workers :
        /\ w1 # w2 /\ reg[w1].pc = "done" /\ reg[w2].pc = "done"
        /\ reg[w1].raced /\ reg[w2].raced
        /\ reg[w1].email = reg[w2].email /\ reg[w1].username # reg[w2].username
        /\ reg[w1].user # NoUser /\ reg[w2].user = NoUser

\* C9: right after POST /auth/register succeeded, a login with the submitted
\* username, or with the submitted e-mail, and the same password succeeds and
\* returns the id, username and e-mail that the registration returned.
C9_LoginAfterRegister ==
    (last.op = "api_register" /\ last.status = 201) =>
        \A identifier \in {last.ident, last.email} :
            \A r \in ApiLoginUser(users, identifier, last.password) :
                r.status = 200 /\ r.user = last.user

Failure401 == [status |-> 401, user |-> NoUser]

Malformed(password_hash) == ~IsBcrypt(password_hash) /\ Len(password_hash) # 2

\* the digest is well formed and made from another password
WrongPassword(password, password_hash) ==
    \/ IsBcrypt(password_hash)
       /\ password_hash[4][2] # BcryptRaw(password, password_hash[4][1])
    \/ ~IsBcrypt(password_hash) /\ Len(password_hash) = 2
       /\ password_hash[2] # <<Sha256Hex(password \o SegText(password_hash[1]))>>

\* C10: a login is answered with the one failure result (401, no user) when
\* the identifier matches no identity, when the password is wrong and when the
\* stored digest is malformed.
C10_UniformFailure ==
    \A body \in LoginRequests :
        LET matching == UsersMatching(users, body[1])
        IN /\ matching = {} => ApiLoginUser(users, body[1], body[2]) = {Failure401}
           /\ \A u \in matching :
                  (WrongPassword(body[2], u.password_hash) \/ Malformed(u.password_hash))
                  => Failure401 \in ApiLoginUser(users, body[1], body[2])
           /\ (matching # {} /\ \A u \in matching :
                  WrongPassword(body[2], u.password_hash) \/ Malformed(u.password_hash))
              => ApiLoginUser(users, body[1], body[2]) = {Failure401}
           /\ \A r \in ApiLoginUser(users, body[1], body[2]) :
                  r.status # 200 => r = Failure401

\* a login against the malformed digest "default_hash" was answered with 401
C10_Witness ==
    /\ last.op = "api_login" /\ last.status = 401 /\ last.user = NoUser
    /\ \E u \in users : u.username = last.ident /\ Malformed(u.password_hash)
    /\ \E u \in users : IsBcrypt(u.password_hash)

(***************************************************************************)
(* The credential hasher called directly (auth.py 12-32;                   *)
(* tests/test_auth_security.py).                                           *)
(***************************************************************************)
MaxHashed == 2
NumHasherSalts == 2

Plaintexts == {"", "secret1", "hunter22", LongPassword1, LongPassword2}

\* bcrypt.gensalt() returns 16 bytes of os.urandom: a value it has not returned
\* before
FreshSalts(produced) ==
    {SaltNames[i] : i \in 1..NumHasherSalts}
        \ {produced[i].digest[4][1] : i \in 1..Len(produced)}

LegacySalts == {"", "ab"}

\* stored strings that are neither bcrypt digests nor salt "$" hash: the empty
\* string, "default_hash", "ab$sha256(secret1ab)$x", "$2b$12$garbage"
MalformedDigests ==
    {<< <<>> >>,
     << <<"default_hash">> >>,
     << <<"ab">>, <<Sha256Hex("secret1" \o "ab")>>, <<"x">> >>,
     << <<>>, <<"2b">>, <<"12">>, <<"garbage">> >>}

\* the digests verify_password is called with, and the password each was made of
StoredHashes(produced) ==
    {[kind |-> "bcrypt", password |-> produced[i].password,
      digest |-> produced[i].digest] : i \in 1..Len(produced)}
    \cup {[kind |-> "legacy", password |-> pw, digest |-> LegacyDigest(pw, salt)] :
             pw \in Plaintexts, salt \in LegacySalts}
    \cup {[kind |-> "malformed", password |-> "", digest |-> d] :
             d \in MalformedDigests}

\* hash_password(password)
HashCall ==
    /\ Len(hasher.produced) < MaxHashed
    /\ \E password \in Plaintexts, salt \in FreshSalts(hasher.produced) :
           hasher' = [hasher EXCEPT !.produced =
                         Append(@, [password |-> password,
                                    digest |-> HashPassword(password, salt)])]
    /\ UNCHANGED <<users, tasks, session, ui_tasks, reg, creator, last, mig, ui>>

\* verify_password(password, stored_hash)
VerifyCall ==
    /\ \E password \in Plaintexts, stored \in StoredHashes(hasher.produced) :
           hasher' = [hasher EXCEPT !.verified = TRUE, !.password = password,
                                    !.stored = stored,
                                    !.result = VerifyPassword(password, stored.digest)]
    /\ UNCHANGED <<users, tasks, session, ui_tasks, reg, creator, last, mig, ui>>

InitHasher ==
    /\ users = {}
    /\ tasks = {}
    /\ session = NoSession
    /\ ui_tasks = <<>>
    /\ reg = [w \in Workers |-> Idle]
    /\ creator = [i \in 1..MaxTaskId |-> 0]
    /\ last = NoOp
    /\ hasher = NoCalls
    /\ mig = NoRun
    /\ ui = NoUi

NextHasher ==
    \/ HashCall
    \/ VerifyCall

SpecHasher == InitHasher /\ [][NextHasher]_vars

(***************************************************************************)
(* Properties of the credential hasher, checked under SpecHasher.          *)
(***************************************************************************)
\* C11: for every digest that hash_password made of a password p and every
\* password q, verify_password(q, digest) is true exactly when q = p.
C11_VerifyIffSamePassword ==
    /\ \A i \in 1..Len(hasher.produced) : \A q \in Plaintexts :
           VerifyPassword(q, hasher.produced[i].digest)
               <=> (q = hasher.produced[i].password)
    /\ (hasher.verified /\ hasher.stored.kind = "bcrypt")
           => (hasher.result <=> (hasher.password = hasher.stored.password))

\* the same for passwords of at most 72 characters
VerifyIffSameShortPassword ==
    \A i \in 1..Len(hasher.produced) : \A q \in Plaintexts :
        (Len(q) <= BcryptMaxBytes /\ Len(hasher.produced[i].password) <= BcryptMaxBytes)
        => (VerifyPassword(q, hasher.produced[i].digest)
               <=> (q = hasher.produced[i].password))

\* C12: the legacy digest salt "$" sha256(p + salt) is accepted by
\* verify_password for p and rejected for every other password, whatever the
\* salt.
C12_LegacyDigestVerifies ==
    /\ \A salt \in LegacySalts, pw \in Plaintexts, q \in Plaintexts :
           VerifyPassword(q, LegacyDigest(pw, salt)) <=> (q = pw)
    /\ (hasher.verified /\ hasher.stored.kind = "legacy")
           => (hasher.result <=> (hasher.password = hasher.stored.password))

\* a legacy digest was verified with its password and accepted
C12_Witness ==
    /\ hasher.verified /\ hasher.stored.kind = "legacy" /\ hasher.result
    /\ hasher.password = "secret1" /\ hasher.stored.digest[1] = <<"ab">>

\* C13: for a stored string that is neither a bcrypt digest nor a legacy digest
\* (empty, without '$', with several '$', garbage) verify_password returns
\* false for every password, and authenticate_user on a row with that digest
\* returns no user.
C13_MalformedDigestIsRejected ==
    /\ \A d \in MalformedDigests, q \in Plaintexts :
           /\ ~VerifyPassword(q, d)
           /\ AuthenticateUser({[id |-> 1, username |-> Ann, email |-> MailOther,
                                 password_hash |-> d]}, Ann, q) = {NoUser}
    /\ (hasher.verified /\ hasher.stored.kind = "malformed") => ~hasher.result

\* the string "ab$sha256(secret1ab)$x" was verified with "secret1"
C13_Witness ==
    /\ hasher.verified /\ hasher.stored.kind = "malformed" /\ ~hasher.result
    /\ hasher.password = "secret1" /\ Len(hasher.stored.digest) = 3

\* C14: two hash_password calls with the same password return two different
\* digests.
C14_DigestsDiffer ==
    \A i, j \in 1..Len(hasher.produced) :
        (i # j /\ hasher.produced[i].password = hasher.produced[j].password)
        => hasher.produced[i].digest # hasher.produced[j].digest

\* the same password was hashed twice, and each digest verifies it
C14_Witness ==
    /\ Len(hasher.produced) = 2
    /\ hasher.produced[1].password = "secret1" /\ hasher.produced[2].password = "secret1"
    /\ VerifyPassword("secret1", hasher.produced[1].digest)
    /\ VerifyPassword("secret1", hasher.produced[2].digest)

(***************************************************************************)
(* migrate_passwords step by step (migrate_passwords.py 13-72): the query, *)
(* the loop over the rows read, and the commit of the session, with the    *)
(* REST registrations and logins of other sessions in between.             *)
(***************************************************************************)
\* the salts bcrypt.gensalt() returns to the migrator
MigrationSalts == {SaltNames[i] : i \in 1..NumHasherSalts}

\* mutant: the loop leaves every digest as it is
KeptHash(password_hash, salt) == password_hash

\* the loop body: the digest the session holds for the row afterwards
MigratedHash(password_hash, salt) ==
    IF HasDollar(password_hash) THEN HashPassword(TemporaryPassword, salt)
    ELSE password_hash

\* session.commit(): the UPDATE of every changed row, by primary key
Committed(U, pending) ==
    {IF \E p \in pending : p.id = u.id
     THEN [u EXCEPT !.password_hash =
              (CHOOSE p \in pending : p.id = u.id).password_hash]
     ELSE u : u \in U}

\* mutant: the changes made before the error stay in the table
NotRolledBack(U, pending) == Committed(U, pending)

\* the session is closed without a commit: its changes are discarded
RolledBack(U, pending) == U

\* verify_migration: the digest string starts with "$2b$", "$2a$" or "$2y$"
StartsWithBcryptMarker(password_hash) ==
    /\ Len(password_hash) >= 3
    /\ password_hash[1] = <<>>
    /\ Len(password_hash[2]) = 1 /\ password_hash[2][1] \in BcryptVersions

VerifyMigrationResult(U) == \A u \in U : StartsWithBcryptMarker(u.password_hash)

\* session.query(UserModel).all()
MigrateBegin ==
    /\ mig.pc \in {"idle", "done"}
    /\ mig' = [NoRun EXCEPT !.pc = "loop", !.todo = users, !.before = users,
                            !.second = (mig.returned = "True" /\ users = mig.after)]
    /\ UNCHANGED <<users, tasks, session, ui_tasks, reg, creator, last, hasher, ui>>

\* one pass of the loop, rows in id order
MigrateUser ==
    /\ mig.pc = "loop" /\ mig.todo # {}
    /\ LET user == CHOOSE u \in mig.todo : \A o \in mig.todo : u.id <= o.id
       IN \E salt \in MigrationSalts :
              LET new_hash == MigratedHash(user.password_hash, salt)
              IN mig' = [mig EXCEPT
                            !.todo = @ \ {user},
                            !.pending = IF HasDollar(user.password_hash)
                                        THEN @ \cup {[id |-> user.id,
                                                      password_hash |-> new_hash]}
                                        ELSE @,
                            !.migrated_count = IF HasDollar(user.password_hash)
                                               THEN @ + 1 ELSE @]
    /\ UNCHANGED <<users, tasks, session, ui_tasks, reg, creator, last, hasher, ui>>

\* session.commit() and return True
MigrateCommit ==
    /\ mig.pc = "loop" /\ mig.todo = {}
    /\ users' = Committed(users, mig.pending)
    /\ mig' = [mig EXCEPT !.pc = "done", !.returned = "True",
                          !.after = Committed(users, mig.pending)]
    /\ last' = [NoOp EXCEPT !.op = "migrate_passwords", !.status = mig.migrated_count]
    /\ UNCHANGED <<tasks, session, ui_tasks, reg, creator, hasher, ui>>

\* the query or the commit raises: the session is closed, return False
MigrateFail ==
    /\ mig.pc = "loop"
    /\ users' = RolledBack(users, mig.pending)
    /\ mig' = [mig EXCEPT !.pc = "done", !.returned = "False"]
    /\ last' = [NoOp EXCEPT !.op = "migrate_passwords", !.status = -1]
    /\ UNCHANGED <<tasks, session, ui_tasks, reg, creator, hasher, ui>>

\* verify_migration
VerifyMigration ==
    /\ mig.pc = "done"
    /\ last' = [NoOp EXCEPT !.op = "verify_migration",
                            !.status = IF VerifyMigrationResult(users) THEN 1 ELSE 0]
    /\ UNCHANGED <<users, tasks, session, ui_tasks, reg, creator, hasher, mig, ui>>

NextMigrate ==
    \/ MigrateBegin
    \/ MigrateUser
    \/ MigrateCommit
    \/ MigrateFail
    \/ VerifyMigration
    \/ ApiRegister
    \/ ApiLogin

SpecMigrate == Init /\ [][NextMigrate]_vars

(***************************************************************************)
(* Properties of the password migrator, checked under SpecMigrate.         *)
(***************************************************************************)
\* a run has returned True and the table has not been written since
JustMigrated == mig.pc = "done" /\ mig.returned = "True"

\* the row that now has the id of a row read by the run
RowNow(u) == CHOOSE r \in users : r.id = u.id

IsLegacy(password_hash) == ~IsBcrypt(password_hash) /\ Len(password_hash) = 2

KnownPasswords == {"secret1", "hunter22", TemporaryPassword}

\* C15: a run of migrate_passwords that starts right after a completed run
\* reports zero migrated identities and leaves every stored digest as the first
\* run left it.
C15_SecondRunIsNoOp ==
    (JustMigrated /\ mig.second) =>
        /\ mig.migrated_count = 0
        /\ \A u \in mig.before : RowNow(u).password_hash = u.password_hash

\* C16: an identity whose digest is a bcrypt digest when a run of
\* migrate_passwords starts has the same digest after the run, and every
\* password that verified before the run verifies after it.
C16_ModernDigestIsSkipped ==
    JustMigrated =>
        \A u \in mig.before :
            StartsWithBcryptMarker(u.password_hash) =>
                /\ RowNow(u).password_hash = u.password_hash
                /\ \A password \in KnownPasswords :
                       VerifyPassword(password, u.password_hash)
                       => Public(u) \in AuthenticateUser(users, u.username, password)

\* C17: after a run of migrate_passwords that returned True, whatever the table
\* held before, every stored digest is a bcrypt digest and verify_migration
\* returns True.
C17_AllModernAfterRun ==
    (JustMigrated /\ users = mig.after) =>
        /\ \A u \in users : StartsWithBcryptMarker(u.password_hash)
        /\ VerifyMigrationResult(users)

\* C18: an identity whose digest was a legacy digest when a successful run
\* started authenticates with "temporary_password" after the run, and no longer
\* with its original password (unless that is "temporary_password").
C18_LegacyPasswordIsReset ==
    JustMigrated =>
        \A u \in mig.before :
            IsLegacy(u.password_hash) =>
                /\ VerifyPassword(TemporaryPassword, RowNow(u).password_hash)
                /\ AuthenticateUser(users, u.username, TemporaryPassword) = {Public(u)}
                /\ AuthenticateUser(users, u.email, TemporaryPassword) = {Public(u)}
                /\ \A password \in KnownPasswords \ {TemporaryPassword} :
                       VerifyPassword(password, u.password_hash)
                       => /\ ~VerifyPassword(password, RowNow(u).password_hash)
                          /\ AuthenticateUser(users, u.username, password) = {NoUser}

\* a run reset a legacy digest while a registered identity was stored as well
C18_Witness ==
    /\ JustMigrated /\ Cardinality(mig.before) = 2
    /\ \E u \in mig.before : /\ IsLegacy(u.password_hash)
                             /\ VerifyPassword("secret1", u.password_hash)
                             /\ IsBcrypt(RowNow(u).password_hash)

\* C19: when migrate_passwords returns False, every identity that was stored
\* when the run started has the digest it had then; and no digest changes in the
\* table before the commit.
C19_FailedRunChangesNothing ==
    /\ (mig.pc = "done" /\ mig.returned = "False") =>
           \A u \in mig.before : RowNow(u).password_hash = u.password_hash
    /\ mig.pc = "loop" => \A u \in mig.before : RowNow(u).password_hash = u.password_hash

\* a run failed after the loop had re-hashed two digests
C19_Witness ==
    /\ mig.pc = "done" /\ mig.returned = "False"
    /\ mig.todo = {} /\ Cardinality(mig.pending) = 2
    /\ \A u \in mig.before : u \in users

(***************************************************************************)
(* Task status, checked under SpecTasks.                                   *)
(***************************************************************************)
\* C20: in every reachable state the status of every stored task is one of
\* todo, in_progress, done, whatever status values the create, PUT and PATCH
\* requests carried.
C20_StatusIsAllowed ==
    \A t \in tasks : t.status \in AllowedStatuses

(***************************************************************************)
(* UI session: the task handlers of State as they are in effect (the last  *)
(* definition of each name in the class body) and the computed view        *)
(* filtered_tasks (state.py 560-564, 660-905).  A handler runs as one step: *)
(* the events of a session are processed one at a time.                    *)
(***************************************************************************)
MaxClock == 2

\* created_at of a new row, datetime.utcnow, as a logical time: later than the
\* time of every stored row and of every copy the session holds
Now(T, uit) ==
    SetMax({t.created_at : t \in T} \cup {uit[i].created_at : i \in 1..Len(uit)}) + 1

\* not (not self.is_authenticated or not self.current_user)
LoggedIn(sess) == sess.is_authenticated /\ sess.current_user # NoUser

\* reset_form
ResetForm(u) ==
    [u EXCEPT !.new_task_title = <<>>, !.new_task_description = <<>>,
              !.new_task_priority = "medium", !.new_task_due_date = ""]

\* .filter(TaskModel.id == int(task_id), TaskModel.user_id == self.current_user.id)
UiOwnedTask(T, task_id, sess) ==
    {t \in T : t.id = ToInt(task_id) /\ t.user_id = sess.current_user.id}

\* index of the first copy with this id (0: none): for task in self.tasks ... break
FirstWithId(uit, task_id) ==
    IF \E i \in 1..Len(uit) : uit[i].id = task_id
    THEN SetMin({i \in 1..Len(uit) : uit[i].id = task_id}) ELSE 0

\* the outcome of a handler that changes nothing but the toast it returns
Unchanged(T, uit, u, toast) == [tasks |-> T, ui_tasks |-> uit, ui |-> u, toast |-> toast]

\* add_task
UiAddTaskHandler(T, sess, uit, u) ==
    IF ~LoggedIn(sess) THEN Unchanged(T, uit, u, "Please login to add tasks")
    ELSE IF Strip(u.new_task_title) = <<>> THEN Unchanged(T, uit, u, "")
    ELSE LET new_db_task ==
                 [id |-> SetMax({t.id : t \in T}) + 1,
                  user_id |-> sess.current_user.id,
                  title |-> Strip(u.new_task_title),
                  description |-> Strip(u.new_task_description),
                  status |-> "todo", priority |-> u.new_task_priority,
                  due_date |-> IF u.new_task_due_date # ""
                               THEN u.new_task_due_date ELSE Null,
                  created_at |-> Now(T, uit)]
         IN [tasks |-> T \cup {new_db_task},
             ui_tasks |-> <<DbTaskToTask(new_db_task)>> \o uit,
             ui |-> ResetForm(u), toast |-> "Task added successfully!"]

\* update_task
UiUpdateTaskHandler(T, sess, uit, u) ==
    IF ~LoggedIn(sess) THEN Unchanged(T, uit, u, "Please login to update tasks")
    ELSE IF u.editing_task = NoUiTask \/ Strip(u.new_task_title) = <<>>
    THEN Unchanged(T, uit, u, "")
    ELSE IF UiOwnedTask(T, u.editing_task.id, sess) = {}
    THEN Unchanged(T, uit, u, "Task not found")
    ELSE LET old == CHOOSE t \in UiOwnedTask(T, u.editing_task.id, sess) : TRUE
             db_task == [old EXCEPT
                            !.title = Strip(u.new_task_title),
                            !.description = Strip(u.new_task_description),
                            !.priority = u.new_task_priority,
                            !.due_date = IF u.new_task_due_date # ""
                                         THEN u.new_task_due_date ELSE Null]
             i == FirstWithId(uit, u.editing_task.id)
         IN [tasks |-> (T \ {old}) \cup {db_task},
             ui_tasks |-> IF i = 0 THEN uit
                          ELSE [uit EXCEPT ![i].title = db_task.title,
                                           ![i].description = db_task.description,
                                           ![i].priority = db_task.priority,
                                           ![i].due_date = db_task.due_date],
             ui |-> [ResetForm(u) EXCEPT !.is_editing = FALSE,
                                         !.editing_task = NoUiTask],
             toast |-> "Task updated successfully!"]

\* edit_task (the definition at state.py 839 replaces the one at 768)
UiEditTaskHandler(u, task) ==
    [u EXCEPT !.editing_task = task, !.is_editing = TRUE,
              !.new_task_title = task.title,
              !.new_task_description = task.description,
              !.new_task_priority = task.priority,
              !.new_task_due_date = IF task.due_date \in {Null, ""} THEN ""
                                    ELSE task.due_date]

\* cancel_edit
UiCancelEditHandler(u) ==
    [ResetForm(u) EXCEPT !.is_editing = FALSE, !.editing_task = NoUiTask]

\* mutant: delete_task without the guard and the owner filter, as first defined
\* in task_dashboard.py (163-172)
UiDeleteTaskUnguarded(T, sess, uit, u, task_id) ==
    IF {t \in T : t.id = ToInt(task_id)} = {} THEN Unchanged(T, uit, u, "")
    ELSE [tasks |-> {t \in T : t.id # ToInt(task_id)},
          ui_tasks |-> SelectSeq(uit, LAMBDA task : task.id # task_id),
          ui |-> u, toast |-> ""]

\* delete_task
UiDeleteTaskHandler(T, sess, uit, u, task_id) ==
    IF ~LoggedIn(sess) THEN Unchanged(T, uit, u, "Please login to delete tasks")
    ELSE IF UiOwnedTask(T, task_id, sess) = {}
    THEN Unchanged(T, uit, u, "Task not found")
    ELSE [tasks |-> T \ UiOwnedTask(T, task_id, sess),
          ui_tasks |-> SelectSeq(uit, LAMBDA task : task.id # task_id),
          ui |-> u, toast |-> "Task deleted successfully!"]

\* update_task_status
UiUpdateTaskStatusHandler(T, sess, uit, u, task_id, new_status) ==
    IF ~LoggedIn(sess) THEN Unchanged(T, uit, u, "")
    ELSE IF UiOwnedTask(T, task_id, sess) = {} THEN Unchanged(T, uit, u, "")
    ELSE LET old == CHOOSE t \in UiOwnedTask(T, task_id, sess) : TRUE
             i == FirstWithId(uit, task_id)
         IN [tasks |-> (T \ {old}) \cup {[old EXCEPT !.status = new_status]},
             ui_tasks |-> IF i = 0 THEN uit
                          ELSE [uit EXCEPT ![i].status = new_status],
             ui |-> u, toast |-> ""]

(***************************************************************************)
(* filtered_tasks (state.py 876-905).                                      *)
(***************************************************************************)
\* the characters of the model's texts in the order of their code points
Alphabet == <<" ", "&", ";", ">", "A", "B", "a", "b", "c", "d", "g", "t">>

CharRank(c) == CHOOSE i \in 1..Len(Alphabet) : Alphabet[i] = c

\* s < t for two str values
RECURSIVE LexLess(_, _)
LexLess(s, t) ==
    IF t = <<>> THEN FALSE
    ELSE IF s = <<>> THEN TRUE
    ELSE IF Head(s) = Head(t) THEN LexLess(Tail(s), Tail(t))
    ELSE CharRank(Head(s)) < CharRank(Head(t))

\* part in text
InText(part, text) ==
    \E i \in 0..Len(text) :
        /\ i + Len(part) <= Len(text)
        /\ \A j \in 1..Len(part) : text[i + j] = part[j]

\* priority_order.get(task.priority, 0)
PriorityOrder(priority) ==
    CASE priority = "high" -> 3
      [] priority = "medium" -> 2
      [] priority = "low" -> 1
      [] OTHER -> 0

\* the due dates of the model in the order of their strings
DueDates == <<"2024-01-01", "2025-01-01">>

\* the place of (task.due_date or "9999-12-31") in that order
DateRank(due_date) ==
    IF due_date \in {Null, ""} THEN Len(DueDates) + 1
    ELSE CHOOSE i \in 1..Len(DueDates) : DueDates[i] = due_date

\* sort_key(a) < sort_key(b)
KeyLess(sort_by, a, b) ==
    CASE sort_by = "priority" -> PriorityOrder(a.priority) < PriorityOrder(b.priority)
      [] sort_by = "due_date" -> DateRank(a.due_date) < DateRank(b.due_date)
      [] sort_by = "title" -> LexLess(Lower(a.title), Lower(b.title))
      [] OTHER -> a.created_at < b.created_at

RemoveAt(seq, i) == SubSeq(seq, 1, i - 1) \o SubSeq(seq, i + 1, Len(seq))

\* list.sort(key=sort_key, reverse=reverse): stable in both directions
RECURSIVE ListSort(_, _, _)
ListSort(seq, sort_by, reverse) ==
    IF seq = <<>> THEN <<>>
    ELSE LET comes_first(i) ==
                 \A j \in 1..Len(seq) :
                     IF reverse THEN ~KeyLess(sort_by, seq[i], seq[j])
                     ELSE ~KeyLess(sort_by, seq[j], seq[i])
             i == SetMin({k \in 1..Len(seq) : comes_first(k)})
         IN <<seq[i]>> \o ListSort(RemoveAt(seq, i), sort_by, reverse)

\* filtered_tasks: the value of the view and the list self.tasks afterwards.
\* filtered is the list self.tasks itself unless a filter built a new list,
\* and filtered.sort sorts it in place
FilteredTasks(uit, u) ==
    LET query == Lower(u.search_query)
        searched == IF u.search_query # <<>>
                    THEN SelectSeq(uit, LAMBDA task :
                             \/ InText(query, Lower(task.title))
                             \/ InText(query, Lower(task.description)))
                    ELSE uit
        filtered == IF u.filter_status # "all"
                    THEN SelectSeq(searched, LAMBDA task : task.status = u.filter_status)
                    ELSE searched
        sorted == ListSort(filtered, u.sort_by, u.sort_order = "desc")
    IN [value |-> sorted,
        tasks |-> IF u.search_query = <<>> /\ u.filter_status = "all"
                  THEN sorted ELSE uit]

(***************************************************************************)
(* The events of a UI session.                                             *)
(***************************************************************************)
\* contents of the task form: <<title, description, priority, due_date>>
TaskForms ==
    {<< <<"b">>, <<>>, "medium", "" >>,
     << <<" ", "a">>, <<"c">>, "high", "2024-01-01" >>}

\* login forms of the two identities: the second is sent the string that is
\* its username and the other's e-mail
UiLoginForms == {<<Bob, "secret1">>, <<MailLower, "secret1">>}

\* status values sent by the status menu
UiStatuses == {"done"}

\* settings of the view: <<search_query, filter_status, sort_by, sort_order>>
ViewSettings ==
    {<< <<>>, "all", "created_at", "desc" >>, << <<>>, "all", "title", "asc" >>,
     << <<"A">>, "todo", "priority", "desc" >>}

\* the Task an edit_task event carries: one of the copies the session shows
EditArguments(uit) == {uit[i] : i \in 1..Len(uit)}

UiEvent(op, task_id) == last' = [NoOp EXCEPT !.op = op, !.task_id = task_id]

\* the setters of the form fields
UiSetForm ==
    \E form \in TaskForms :
        /\ ui' = [ui EXCEPT !.new_task_title = form[1],
                            !.new_task_description = form[2],
                            !.new_task_priority = form[3],
                            !.new_task_due_date = form[4]]
        /\ UiEvent("ui_set_form", "")
        /\ UNCHANGED <<users, tasks, session, ui_tasks, reg, creator, hasher, mig>>

\* the setters of search_query, filter_status, sort_by and sort_order
UiSetView ==
    \E view \in ViewSettings :
        /\ ui' = [ui EXCEPT !.search_query = view[1], !.filter_status = view[2],
                            !.sort_by = view[3], !.sort_order = view[4]]
        /\ UiEvent("ui_set_view", "")
        /\ UNCHANGED <<users, tasks, session, ui_tasks, reg, creator, hasher, mig>>

UiLoadTasks ==
    /\ ui_tasks' = LoadTasks(tasks, session)
    /\ UiEvent("load_tasks", "")
    /\ UNCHANGED <<users, tasks, session, ui, reg, creator, hasher, mig>>

UiAddTask ==
    LET r == UiAddTaskHandler(tasks, session, ui_tasks, ui)
    IN /\ \A t \in r.tasks : t.id <= MaxTaskId /\ t.created_at <= MaxClock
       /\ tasks' = r.tasks
       /\ ui_tasks' = r.ui_tasks
       /\ ui' = r.ui
       /\ UiEvent("add_task", "")
       /\ UNCHANGED <<users, session, reg, creator, hasher, mig>>

UiEditTask ==
    \E task \in EditArguments(ui_tasks) :
        /\ ui' = UiEditTaskHandler(ui, task)
        /\ UiEvent("edit_task", "")
        /\ UNCHANGED <<users, tasks, session, ui_tasks, reg, creator, hasher, mig>>

UiCancelEdit ==
    /\ ui' = UiCancelEditHandler(ui)
    /\ UiEvent("cancel_edit", "")
    /\ UNCHANGED <<users, tasks, session, ui_tasks, reg, creator, hasher, mig>>

UiUpdateTask ==
    LET r == UiUpdateTaskHandler(tasks, session, ui_tasks, ui)
    IN /\ tasks' = r.tasks
       /\ ui_tasks' = r.ui_tasks
       /\ ui' = r.ui
       /\ UiEvent("update_task", "")
       /\ UNCHANGED <<users, session, reg, creator, hasher, mig>>

UiDeleteTask ==
    \E n \in TaskIds :
        LET r == UiDeleteTaskHandler(tasks, session, ui_tasks, ui, Str(n))
        IN /\ tasks' = r.tasks
           /\ ui_tasks' = r.ui_tasks
           /\ ui' = r.ui
           /\ UiEvent("delete_task", Str(n))
           /\ UNCHANGED <<users, session, reg, creator, hasher, mig>>

UiUpdateTaskStatus ==
    \E n \in TaskIds, new_status \in UiStatuses :
        LET r == UiUpdateTaskStatusHandler(tasks, session, ui_tasks, ui, Str(n),
                                           new_status)
        IN /\ tasks' = r.tasks
           /\ ui_tasks' = r.ui_tasks
           /\ ui' = r.ui
           /\ UiEvent("update_task_status", "")
           /\ UNCHANGED <<users, session, reg, creator, hasher, mig>>

\* the page is rendered: the computed view is evaluated
UiFilteredTasks ==
    /\ ui_tasks' = FilteredTasks(ui_tasks, ui).tasks
    /\ UiEvent("filtered_tasks", "")
    /\ UNCHANGED <<users, tasks, session, ui, reg, creator, hasher, mig>>

\* delete_task of the REST API, sent by a logged-in user's other client
RestDeleteTask ==
    \E n \in TaskIds :
        LET r == ApiDeleteTask(tasks, session.current_user, n)
        IN /\ LoggedIn(session)
           /\ tasks' = r.tasks
           /\ last' = [NoOp EXCEPT !.op = "rest_delete_task", !.task_id = Str(n),
                                   !.status = r.status]
           /\ UNCHANGED <<users, session, ui_tasks, ui, reg, creator, hasher, mig>>

InitUi ==
    /\ users = TaskUsers
    /\ tasks = {}
    /\ session = NoSession
    /\ ui_tasks = <<>>
    /\ ui = NoUi
    /\ reg = [w \in Workers |-> Idle]
    /\ creator = [i \in 1..MaxTaskId |-> 0]
    /\ last = NoOp
    /\ hasher = NoCalls
    /\ mig = NoRun

NextUi ==
    \/ UiLoginWith(UiLoginForms)
    \/ UiLogout
    \/ UiSetForm
    \/ UiLoadTasks
    \/ UiAddTask
    \/ UiEditTask
    \/ UiCancelEdit
    \/ UiUpdateTask
    \/ UiDeleteTask
    \/ UiUpdateTaskStatus
    \/ RestDeleteTask

SpecUi == InitUi /\ [][NextUi]_vars

\* a session that fills its list and looks at it under several view settings
NextView ==
    \/ UiLoginWith(UiLoginForms)
    \/ UiSetForm
    \/ UiAddTask
    \/ UiUpdateTaskStatus
    \/ UiSetView
    \/ UiFilteredTasks

SpecView == InitUi /\ [][NextView]_vars

(***************************************************************************)
(* Creation, update and deletion of tasks, checked under SpecTasks.        *)
(***************************************************************************)
\* C21: in every reachable state, for every requester and every body of
\* POST /tasks, with or without a status field, a create_task that answers 201
\* reports status todo and adds exactly one row, whose status is todo.
C21_CreatedTaskIsTodo ==
    \A current_user \in Requesters, body \in CreateBodies :
        LET r == ApiCreateTask(tasks, current_user, body)
        IN r.status = 201 =>
               /\ r.task.status = "todo"
               /\ Cardinality(r.tasks \ tasks) = 1
               /\ \A t \in r.tasks \ tasks : t.status = "todo"

\* a task was just created from the body that carries status done (the only
\* body with priority low) and is stored with status todo
C21_Witness ==
    /\ last.op = "create_task" /\ last.status = 201
    /\ \E t \in tasks : t.priority = "low" /\ t.status = "todo"
    /\ \E body \in CreateBodies : "status" \in DOMAIN body /\ body.status = "done"

\* C22: in every reachable state, for every requester, task id and body of
\* PUT /tasks/{task_id}, an update_task that answers 200 replaces one row of the
\* requester by a row with the same id and owner in which every field the body
\* carries has the value sent (text values without surrounding white space) and
\* every field the body does not carry has its old value; every other row of
\* the table is as before.
C22_UpdateChangesOnlySentFields ==
    \A current_user \in Requesters, task_id \in TaskIds, body \in UpdateBodies :
        LET r == ApiUpdateTask(tasks, current_user, task_id, body)
        IN r.status = 200 =>
               \E old \in tasks, new \in r.tasks :
                   /\ old.id = task_id /\ old.user_id = current_user.id
                   /\ new.id = old.id /\ new.user_id = old.user_id
                   /\ r.tasks \ {new} = tasks \ {old}
                   /\ Cardinality(r.tasks) = Cardinality(tasks)
                   /\ IF body.title = AbsentText THEN new.title = old.title
                      ELSE new.title = Strip(body.title)
                   /\ IF body.description = AbsentText
                      THEN new.description = old.description
                      ELSE new.description = Strip(body.description)
                   /\ IF body.status = Null THEN new.status = old.status
                      ELSE new.status = body.status
                   /\ IF body.priority = Null THEN new.priority = old.priority
                      ELSE new.priority = body.priority
                   /\ IF body.due_date = Null THEN new.due_date = old.due_date
                      ELSE new.due_date = body.due_date

\* an update that sent only a title has just been answered 200: the task has the
\* new title and still the description, priority and due date it was created
\* with, next to another task
C22_Witness ==
    /\ last.op = "update_task" /\ last.status = 200
    /\ Cardinality(tasks) = 2
    /\ \E t \in tasks : /\ t.title = <<"B">> /\ t.description = <<"c">>
                         /\ t.priority = "high" /\ t.due_date = "2024-01-01"
                         /\ t.status = "todo"

\* the task id was deleted by this requester's delete_task (answered 200) and no
\* create_task has assigned the id again since
DeletedBy(current_user, task_id) == creator[task_id] = 0 - current_user.id

\* C23: in every reachable state in which a delete_task of a task id succeeded
\* for a requester and the id has not been assigned to a new task since, get_task
\* on that id by that requester answers 404 with no task data and no answer of
\* get_tasks to that requester, under any query, holds a task with that id.
C23_DeletedTaskIsGone ==
    \A current_user \in Requesters, task_id \in TaskIds :
        DeletedBy(current_user, task_id) =>
            /\ ApiGetTask(tasks, current_user, task_id) = NotFound(tasks)
            /\ \A query \in ListQueries :
                   \A t \in ApiGetTasks(tasks, current_user, query[1], query[2], query[3]) :
                       t.id # task_id

\* the first task was deleted by its owner, who still has the second one, and
\* a get_task has just been answered 404
C23_Witness ==
    /\ last.op = "get_task" /\ last.status = 404 /\ last.user.id = 1
    /\ creator[1] = 0 - 1 /\ creator[2] = 1
    /\ \E t \in tasks : t.id = 2 /\ t.user_id = 1

\* input texts for a title or a description
TaskTexts == {TitleAb, <<" ", "B">>, <<" ", ">">>, <<">", "a">>}

\* C25: in every reachable state, for every requester, every task of the
\* requester and every input text x, the title (description) that update_task
\* stores when sent x is the title (description) create_task stores when sent
\* x, which is the sanitized form of x without its surrounding white space.
C25_UpdateStoresSanitizedText ==
    \A current_user \in Requesters, task_id \in TaskIds, x \in TaskTexts :
        LET c == ApiCreateTask(tasks, current_user,
                               [title |-> x, description |-> x,
                                priority |-> "medium", due_date |-> Null])
            u == ApiUpdateTask(tasks, current_user, task_id,
                               [NoChange EXCEPT !.title = x, !.description = x])
        IN (c.status = 201 /\ u.status = 200) =>
               \A created \in c.tasks \ tasks :
                   \A updated \in {t \in u.tasks : t.id = task_id} :
                       /\ created.title = Clean(Strip(x))
                       /\ created.description = Clean(Strip(x))
                       /\ updated.title = created.title
                       /\ updated.description = created.description

(***************************************************************************)
(* Credentials and identities, checked under SpecAuth.                     *)
(***************************************************************************)
\* C26: in every reachable state no identity's username is another identity's
\* e-mail, every username and e-mail of a stored identity matches exactly that
\* identity, and get_current_user and authenticate_user given an identity's own
\* username or e-mail select that identity and never another one.
C26_CredentialMatchesOneIdentity ==
    /\ \A X, Y \in users : X # Y => X.username # Y.email
    /\ \A X \in users :
           \A credentials \in {X.username, X.email} :
               /\ UsersMatching(users, credentials) = {X}
               /\ GetCurrentUser(users, credentials) = {X}
               /\ \A password \in KnownPasswords :
                      AuthenticateUser(users, credentials, password)
                          \subseteq {Public(X), NoUser}

\* C27: a create_user call returns no user (REST: 400 'Username or email
\* already exists', UI: auth_error 'Username or email already exists') only
\* when, at the moment of the call, a stored identity has the username or the
\* e-mail passed to it.
C27_ConflictOnlyWhenTaken ==
    [][(/\ last'.called
        /\ last'.op \in {"api_register", "ui_register"}
        /\ last'.user = NoUser)
       => \E u \in users : u.username = last'.cu_username \/ u.email = last'.cu_email]_vars

(***************************************************************************)
(* The UI session, checked under SpecUi and SpecView.                      *)
(***************************************************************************)
\* the State handlers that read or change stored tasks
UiTaskOps == {"load_tasks", "add_task", "update_task", "delete_task", "update_task_status"}

\* C24: every step of load_tasks, add_task, update_task, delete_task and
\* update_task_status of the UI session leaves the table of tasks as it is
\* while no user is logged in, and otherwise adds, changes or removes only rows
\* whose user_id is the id of the logged-in user, whatever task id the event
\* carries; the list load_tasks builds holds copies of that user's rows only.
C24_UiOwnershipGuard ==
    [][last'.op \in UiTaskOps =>
          /\ ~LoggedIn(session) => tasks' = tasks
          /\ \A t \in (tasks \ tasks') \cup (tasks' \ tasks) :
                 t.user_id = session.current_user.id
          /\ last'.op = "load_tasks" =>
                 /\ ~LoggedIn(session) => ui_tasks' = <<>>
                 /\ \A i \in 1..Len(ui_tasks') :
                        \E t \in tasks : /\ t.user_id = session.current_user.id
                                         /\ ui_tasks'[i] = DbTaskToTask(t)]_vars

\* the logged-in user's delete_task named a task of the other user and the row
\* is still stored
C24_Witness ==
    /\ last.op = "delete_task" /\ LoggedIn(session)
    /\ \E t \in tasks : /\ Str(t.id) = last.task_id
                        /\ t.user_id # session.current_user.id
    /\ \E t \in tasks : t.user_id = session.current_user.id

\* C28: in every state reached by a delete_task event of the UI session, the
\* session's list of tasks holds no task with the id the event carried, also
\* when the row had been deleted through the REST API after the list was loaded.
C28_UiDeleteRemovesCopy ==
    last.op = "delete_task" =>
        \A i \in 1..Len(ui_tasks) : ui_tasks[i].id # last.task_id

\* C29: in every state reached by logout_user, after any logins, form input,
\* edit_task and add_task events, the session holds no task: its list is empty,
\* editing_task is unset and is_editing is false.
C29_LogoutClearsSession ==
    last.op = "ui_logout" =>
        /\ ui_tasks = <<>>
        /\ ui.editing_task = NoUiTask
        /\ ~ui.is_editing

\* every combination of search_query, filter_status, sort_by and sort_order
AllViews ==
    {<<>>, <<"A">>} \X {"all", "todo", "done"}
        \X {"created_at", "due_date", "priority", "title"} \X {"asc", "desc"}

\* C30: in every reachable state of the session, for every combination of
\* search_query, filter_status, sort_by and sort_order, evaluating
\* filtered_tasks leaves the session's list of tasks with the same tasks in the
\* same order.
C30_ViewLeavesTasks ==
    \A view \in AllViews :
        FilteredTasks(ui_tasks, [ui EXCEPT !.search_query = view[1],
                                           !.filter_status = view[2],
                                           !.sort_by = view[3],
                                           !.sort_order = view[4]]).tasks = ui_tasks

====
